---- MODULE Spec2Model ----
(***************************************************************************)
(* Buffy Prime Memory API (main.py, v2): a FastAPI gateway with three      *)
(* endpoints, /save-memory/, /search-memory/ and /upload-image/.  Every    *)
(* endpoint checks the X-API-Key header, then calls the Gemini embedding   *)
(* or vision REST API and the Qdrant REST API through `requests`.          *)
(*                                                                         *)
(* The model follows one handler invocation from the arrival of a request  *)
(* to its response.  Every downstream REST call is one step: the call is   *)
(* appended to the request's call log together with the response the       *)
(* provider gave, which is chosen nondeterministically.                    *)
(***************************************************************************)
EXTENDS Integers, Sequences, FiniteSets, TLC

\* ------------------------------------------------------------------ bounds
\* Number of requests accepted over one run of the service.
MaxRequests == 3

\* Number of requests accepted over one run in which two handlers serve
\* requests at the same time.
MaxConcRequests == 2

\* Handlers of the hosting framework that may serve requests at the same time.
Handlers == {"h1", "h2"}

\* ------------------------------------------------------- values of the model
None == "None"

\* The X-API-Key header of a request: absent, or a string.
Missing == "<no header>"
HeaderKeys == {Missing, "s3cret", "guess"}

\* os.getenv("SERVICE_API_KEY"): the configured string, or None when unset.
ServiceKeys == {"s3cret", None}

Texts == {"t1", "t2"}
Collections == {"episodic_memory", "projects"}
Limits == {3, 5}
ImageSources == {"cam"}
Vectors == {"v1", "v2"}
Descriptions == {"d1"}
Ids == 1..MaxRequests

\* ------------------------------------------------------ module configuration
\* main.py: QDRANT_URL, QDRANT_API_KEY, GEMINI_API_KEY, SERVICE_API_KEY
Configs ==
    [QDRANT_URL : {"https://qdrant"}, QDRANT_API_KEY : {"qk"},
     GEMINI_API_KEY : {"gk"}, SERVICE_API_KEY : ServiceKeys]

\* Names bound in the module namespace by the import statements and by the
\* module's own assignments, classes and functions.
ModuleGlobals ==
    {"os", "requests", "uuid", "base64", "shutil",
     "FastAPI", "HTTPException", "Depends", "UploadFile", "File",
     "APIKeyHeader", "BaseModel", "load_dotenv",
     "QDRANT_URL", "QDRANT_API_KEY", "GEMINI_API_KEY", "SERVICE_API_KEY",
     "api_key_header", "get_api_key", "MemoryMetadata", "MemoryInput",
     "SearchInput", "app", "get_gemini_embedding", "save_memory",
     "search_memory", "upload_image"}

\* ----------------------------------------------------------- pydantic models
\* class MemoryMetadata / class MemoryInput
MemoryMetadata(collection, source, timestamp, tags) ==
    [collection |-> collection, source |-> source,
     timestamp |-> timestamp, tags |-> tags]

MemoryInput(text, metadata) == [text |-> text, metadata |-> metadata]

\* class SearchInput
SearchInput(query, collection, limit) ==
    [query |-> query, collection |-> collection, limit |-> limit]

\* ------------------------------------------------------ inbound HTTP requests
SaveRequests ==
    {[endpoint |-> "save-memory", key |-> k,
      body |-> MemoryInput(t, MemoryMetadata(c, <<"chat">>, "ts0", <<"note">>))] :
        k \in HeaderKeys, t \in Texts, c \in Collections}

SearchRequests ==
    {[endpoint |-> "search-memory", key |-> k, body |-> SearchInput(t, c, l)] :
        k \in HeaderKeys, t \in Texts, c \in Collections, l \in Limits}

UploadRequests ==
    {[endpoint |-> "upload-image", key |-> k,
      body |-> [collection |-> c, source |-> s, file |-> "img"]] :
        k \in HeaderKeys, c \in Collections, s \in ImageSources}

Requests == SaveRequests \cup SearchRequests \cup UploadRequests

\* ------------------------------------------------- downstream HTTP responses
\* A response body as received: `fmt` says how the bytes are written ("compact"
\* and "spaced" are JSON texts that differ in insignificant whitespace, "text"
\* is not JSON), `val` is the JSON value the bytes denote.
Body(fmt, val) == [fmt |-> fmt, val |-> val]

NoBody == Body("text", [raw |-> ""])
ErrorJson == Body("compact", [error |-> "upstream message"])
NotJson == Body("text", [raw |-> "<html>"])

\* What requests.post / requests.put gives: an exception raised by the
\* transport (exc), or a response with a status code and a body.
TransportError == [exc |-> "ConnectionError", status |-> 0, body |-> NoBody]

Response(status, body) == [exc |-> None, status |-> status, body |-> body]

\* Bodies that come with a status that is not 2xx: an error document.
ErrorResponses ==
    {Response(304, NotJson), Response(304, ErrorJson),
     Response(404, ErrorJson), Response(503, ErrorJson)}

EmbedBodies ==
    {Body("compact", [embedding |-> [values |-> v]]) : v \in Vectors}
        \cup {ErrorJson, NotJson}

EmbedResponses ==
    {TransportError} \cup {Response(200, b) : b \in EmbedBodies}
        \cup ErrorResponses

VisionBodies ==
    {Body("compact", [candidates |-> <<[content |-> [parts |-> <<[text |-> d]>>]]>>]) :
        d \in Descriptions}
        \cup {ErrorJson, NotJson}

VisionResponses ==
    {TransportError} \cup {Response(200, b) : b \in VisionBodies}
        \cup ErrorResponses

\* Qdrant answers an upsert with an acknowledgement the handler never reads.
UpsertResponses ==
    {TransportError, Response(200, Body("compact", [result |-> <<"acknowledged">>]))}
        \cup ErrorResponses

SearchResults == {<<>>, <<"p1">>}

SearchBodies ==
    {Body(f, [result |-> r]) : f \in {"compact", "spaced"}, r \in SearchResults}
        \cup {NotJson}

SearchResponses ==
    {TransportError} \cup {Response(200, b) : b \in SearchBodies}
        \cup ErrorResponses

\* A 2xx status.
IsSuccessStatus(resp) == resp.exc = None /\ resp.status \in 200..299

\* ------------------------------------------------------ python control flow
\* The outcome of evaluating a block: a returned value or a raised exception.
Return(v) == [tag |-> "return", value |-> v]

Raise(e) == [tag |-> "raise", exc |-> e]

\* An exception object: its class, and str(e) as a sequence of text pieces.
Exc(type, str) == [type |-> type, str |-> str]

\* fastapi.HTTPException(status_code=..., detail=...)
HTTPException(status_code, detail) ==
    [type |-> "HTTPException", status_code |-> status_code, detail |-> detail]

\* Response.raise_for_status(): HTTPError for 4xx and 5xx, nothing otherwise.
RaiseForStatus(resp) ==
    IF 400 <= resp.status /\ resp.status < 600
    THEN Raise(Exc("HTTPError", <<ToString(resp.status), " Error for url">>))
    ELSE Return(None)

\* Response.json(): the JSON value of the body, JSONDecodeError when the body
\* is not JSON.
Json(resp) ==
    IF resp.body.fmt \in {"compact", "spaced"}
    THEN Return(resp.body.val)
    ELSE Raise(Exc("JSONDecodeError", <<"Expecting value">>))

\* requests.post(...) / requests.put(...): the transport's exception or the
\* response object.
Send(resp) ==
    IF resp.exc # None
    THEN Raise(Exc(resp.exc, <<"Connection failed">>))
    ELSE Return(resp)

\* `except requests.exceptions.RequestException`.  JSONDecodeError derives from
\* RequestException from requests 2.27 on and from ValueError only before:
\* jsonIsRequestException says which library is installed.
IsRequestException(e, jsonIsRequestException) ==
    \/ e.type \in {"ConnectionError", "HTTPError"}
    \/ e.type = "JSONDecodeError" /\ jsonIsRequestException

\* What the framework sends for the outcome of an endpoint function: the
\* returned value as a JSON body with status 200, an HTTPException as its
\* status with {"detail": ...}, any other exception as a bare 500.
Render(val) == Body("compact", val)

HttpResult(outcome) ==
    IF outcome.tag = "return"
    THEN [status |-> 200, body |-> Render(outcome.value)]
    ELSE IF outcome.exc.type = "HTTPException"
    THEN [status |-> outcome.exc.status_code,
          body |-> Render([detail |-> outcome.exc.detail])]
    ELSE [status |-> 500, body |-> Body("text", [raw |-> "Internal Server Error"])]

\* ------------------------------------------------------------------- state
VARIABLES
    config,                  \* the module-level configuration read at import
    jsonIsRequestException,  \* the installed requests library (see above)
    req,                     \* per handler: the request it is serving
    generated,               \* identifiers uuid.uuid4() has produced so far
    savedPoints,             \* id, collection and text of every save answered with success
    nSaved,                  \* number of saves answered with success
    served                   \* number of requests accepted so far

vars == <<config, jsonIsRequestException, req, generated, savedPoints, nSaved, served>>

NoMemoryInput == MemoryInput(None, MemoryMetadata(None, <<>>, None, <<>>))
NoResult == [status |-> 0, body |-> NoBody]

Idle ==
    [pc |-> "idle", request |-> [endpoint |-> None, key |-> Missing, body |-> [none |-> None]],
     memory_input |-> NoMemoryInput, description_text |-> None,
     embedding |-> None, calls |-> <<>>, result |-> NoResult]

\* One downstream REST call as the provider saw it, with the answer it gave.
Call(svc, op, collection, payload, resp) ==
    [svc |-> svc, op |-> op, collection |-> collection,
     payload |-> payload, resp |-> resp]

Init ==
    /\ config \in Configs
    /\ jsonIsRequestException \in BOOLEAN
    /\ req = [h \in Handlers |-> Idle]
    /\ generated = {}
    /\ savedPoints = {}
    /\ nSaved = 0
    /\ served = 0

\* ------------------------------------------------------------ the auth gate
\* A gate that only requires the header to be present.
GetApiKeyPresenceOnly(api_key, cfg) ==
    IF api_key = Missing
    THEN Raise(HTTPException(403, <<"Not authenticated">>))
    ELSE Return(api_key)

\* api_key_header = APIKeyHeader(name="X-API-Key"); get_api_key(api_key)
GetApiKey(api_key, cfg) ==
    IF api_key = Missing
    THEN Raise(HTTPException(403, <<"Not authenticated">>))
    ELSE IF api_key # cfg.SERVICE_API_KEY
    THEN Raise(HTTPException(403, <<"Could not validate credentials">>))
    ELSE Return(api_key)

\* ---------------------------------------------------- get_gemini_embedding
\* The body of the try block, given the provider's answer.
EmbeddingTry(resp) ==
    LET sent == Send(resp) IN
    IF sent.tag = "raise" THEN sent
    ELSE LET st == RaiseForStatus(resp) IN
    IF st.tag = "raise" THEN st
    ELSE LET js == Json(resp) IN
    IF js.tag = "raise" THEN js
    ELSE IF "embedding" \notin DOMAIN js.value
    THEN Raise(Exc("KeyError", <<"'embedding'">>))
    ELSE Return(js.value.embedding.values)

\* An embedding helper that falls back to a default vector when the call fails.
GetGeminiEmbeddingFallback(resp, jre) ==
    LET t == EmbeddingTry(resp) IN
    IF t.tag = "raise" THEN Return("v1") ELSE t

GetGeminiEmbedding(resp, jre) ==
    LET t == EmbeddingTry(resp) IN
    IF t.tag = "raise" /\ IsRequestException(t.exc, jre)
    THEN Raise(HTTPException(500, <<"Error calling Gemini API: ">> \o t.exc.str))
    ELSE t

\* -------------------------------------------------------------- save_memory
\* An identifier computed once, when the module is loaded.
Uuid4AtImport(gen) == {1}

\* uuid.uuid4(): an identifier no earlier call has produced.
Uuid4(gen) == Ids \ gen

\* The point save_memory puts into the collection.
Point(point_id, embedding, memory_input) ==
    [id |-> point_id, vector |-> embedding, payload |-> memory_input.metadata]

\* A save that reports the default collection instead of the requested one.
SaveMemoryStoreDefaultCollection(resp, point_id, collection_name, jre) ==
    LET sent == Send(resp)
        t == IF sent.tag = "raise" THEN sent ELSE RaiseForStatus(resp)
    IN  IF t.tag = "raise"
        THEN IF IsRequestException(t.exc, jre)
             THEN Raise(HTTPException(500, <<"Error calling Qdrant API: ">> \o t.exc.str))
             ELSE t
        ELSE Return([status |-> "success", id |-> point_id,
                     collection |-> "episodic_memory"])

\* The try block and the return statement, given the answer to the PUT.
SaveMemoryStore(resp, point_id, collection_name, jre) ==
    LET sent == Send(resp)
        t == IF sent.tag = "raise" THEN sent ELSE RaiseForStatus(resp)
    IN  IF t.tag = "raise"
        THEN IF IsRequestException(t.exc, jre)
             THEN Raise(HTTPException(500, <<"Error calling Qdrant API: ">> \o t.exc.str))
             ELSE t
        ELSE Return([status |-> "success", id |-> point_id,
                     collection |-> collection_name])

\* ------------------------------------------------------------ search_memory
\* The search request sent to the store.
SearchPayload(query_embedding, search_input) ==
    [vector |-> query_embedding, limit |-> search_input.limit, with_payload |-> TRUE]

\* A search that wraps the store's document instead of returning it as it is.
SearchMemoryStoreWrapped(resp, jre) ==
    LET sent == Send(resp)
        t == IF sent.tag = "raise" THEN sent ELSE RaiseForStatus(resp)
        js == Json(resp)
    IN  IF t.tag = "raise"
        THEN IF IsRequestException(t.exc, jre)
             THEN Raise(HTTPException(500, <<"Error calling Qdrant API: ">> \o t.exc.str))
             ELSE t
        ELSE IF js.tag = "raise" THEN js ELSE Return([results |-> js.value])

\* The try block and `return response.json()`, given the answer to the POST.
SearchMemoryStore(resp, jre) ==
    LET sent == Send(resp)
        t == IF sent.tag = "raise" THEN sent ELSE RaiseForStatus(resp)
    IN  IF t.tag = "raise"
        THEN IF IsRequestException(t.exc, jre)
             THEN Raise(HTTPException(500, <<"Error calling Qdrant API: ">> \o t.exc.str))
             ELSE t
        ELSE Json(resp)

\* ------------------------------------------------------------- upload_image
\* base64.b64encode(image_bytes).decode('utf-8')
B64(image_bytes) == <<"base64", image_bytes>>

VisionPrompt == "Analyze this image. ..."

VisionPayload(file) ==
    [prompt |-> VisionPrompt, mime_type |-> "image/png", data |-> B64(file)]

\* Reading a module-level name: NameError unless the module binds it.
LookupGlobal(name) ==
    IF name \in ModuleGlobals
    THEN Return(name)
    ELSE Raise(Exc("NameError", <<"name '", name, "' is not defined">>))

\* The try block around the vision call.
VisionTry(resp) ==
    LET sent == Send(resp) IN
    IF sent.tag = "raise" THEN sent
    ELSE LET st == RaiseForStatus(resp) IN
    IF st.tag = "raise" THEN st
    ELSE LET js == Json(resp) IN
    IF js.tag = "raise" THEN js
    ELSE IF "candidates" \notin DOMAIN js.value
    THEN Raise(Exc("KeyError", <<"'candidates'">>))
    ELSE Return(js.value.candidates[1].content.parts[1].text)

AnalyzeImage(resp, jre) ==
    LET t == VisionTry(resp) IN
    IF t.tag = "raise" /\ IsRequestException(t.exc, jre)
    THEN Raise(HTTPException(500, <<"Error calling Gemini Vision API: ">> \o t.exc.str))
    ELSE t

\* metadata = MemoryMetadata(...); memory_input = MemoryInput(...): the keyword
\* arguments are evaluated in order, timestamp reads the name `datetime`.
BuildMemoryInput(collection, source, description_text, now) ==
    LET dt == LookupGlobal("datetime") IN
    IF dt.tag = "raise" THEN dt
    ELSE Return(MemoryInput(description_text,
                  MemoryMetadata(collection, <<"image_upload/", source>>, now,
                                 <<"image_upload", source>>)))

UtcNow == "now"

\* ------------------------------------------------------------------ actions
\* The request ends: the framework turns the outcome into the HTTP response.
Finished(r, calls, outcome) ==
    [r EXCEPT !.pc = "done", !.calls = calls, !.result = HttpResult(outcome)]

\* The framework hands an inbound request to a free handler.
Receive(h, R, cap) ==
    /\ req[h].pc = "idle"
    /\ served < cap
    /\ \E r \in R :
        req' = [req EXCEPT ![h] = [Idle EXCEPT !.pc = "auth", !.request = r]]
    /\ served' = served + 1
    /\ UNCHANGED <<config, jsonIsRequestException, generated, savedPoints, nSaved>>

\* Depends(get_api_key), then the first lines of the endpoint function.
AuthStep(r, cfg) ==
    LET o == GetApiKey(r.request.key, cfg) IN
    IF o.tag = "raise" THEN Finished(r, r.calls, o)
    ELSE IF r.request.endpoint = "save-memory"
    THEN [r EXCEPT !.pc = "embed", !.memory_input = r.request.body]
    ELSE IF r.request.endpoint = "search-memory"
    THEN [r EXCEPT !.pc = "embed"]
    ELSE [r EXCEPT !.pc = "vision"]

Auth(h) ==
    /\ req[h].pc = "auth"
    /\ req' = [req EXCEPT ![h] = AuthStep(req[h], config)]
    /\ UNCHANGED <<config, jsonIsRequestException, generated, savedPoints, nSaved, served>>

\* upload_image up to the call of save_memory: the vision call, then the
\* construction of the record.
VisionStep(r, resp, jre) ==
    LET calls == Append(r.calls,
                   Call("vision", "generateContent", None,
                        VisionPayload(r.request.body.file), resp))
        a == AnalyzeImage(resp, jre)
        m == IF a.tag = "raise" THEN a
             ELSE BuildMemoryInput(r.request.body.collection,
                                   r.request.body.source, a.value, UtcNow)
    IN  IF m.tag = "raise"
        THEN [Finished(r, calls, m) EXCEPT !.description_text =
                 IF a.tag = "raise" THEN None ELSE a.value]
        ELSE [r EXCEPT !.pc = "embed", !.calls = calls,
                       !.description_text = a.value,
                       !.memory_input = m.value]

Vision(h) ==
    /\ req[h].pc = "vision"
    /\ \E resp \in VisionResponses :
        req' = [req EXCEPT ![h] = VisionStep(req[h], resp, jsonIsRequestException)]
    /\ UNCHANGED <<config, jsonIsRequestException, generated, savedPoints, nSaved, served>>

\* get_gemini_embedding(memory_input.text) / get_gemini_embedding(search_input.query)
EmbedStep(r, resp, jre) ==
    LET text == IF r.request.endpoint = "search-memory"
                THEN r.request.body.query ELSE r.memory_input.text
        calls == Append(r.calls,
                   Call("embedding", "embedContent", None, text, resp))
        o == GetGeminiEmbedding(resp, jre)
    IN  IF o.tag = "raise" THEN Finished(r, calls, o)
        ELSE [r EXCEPT !.calls = calls, !.embedding = o.value,
                       !.pc = IF r.request.endpoint = "search-memory"
                              THEN "search" ELSE "upsert"]

\* An embedding step that keeps the latest vector in a module-level cache
\* shared by all requests and hands the cached vector to the next one.
EmbedShared(h) ==
    /\ req[h].pc = "embed"
    /\ \E resp \in EmbedResponses :
        LET r == EmbedStep(req[h], resp, jsonIsRequestException)
            cached == {req[g].embedding : g \in Handlers \ {h}} \ {None}
        IN  req' = [req EXCEPT ![h] =
              IF r.pc = "done" \/ cached = {} THEN r
              ELSE [r EXCEPT !.embedding = CHOOSE v \in cached : TRUE]]
    /\ UNCHANGED <<config, jsonIsRequestException, generated, savedPoints, nSaved, served>>

Embed(h) ==
    /\ req[h].pc = "embed"
    /\ \E resp \in EmbedResponses :
        req' = [req EXCEPT ![h] = EmbedStep(req[h], resp, jsonIsRequestException)]
    /\ UNCHANGED <<config, jsonIsRequestException, generated, savedPoints, nSaved, served>>

\* save_memory after the embedding: the identifier, the PUT, the response.
UpsertStep(r, point_id, resp, jre) ==
    LET collection_name == r.memory_input.metadata.collection
        point == Point(point_id, r.embedding, r.memory_input)
        calls == Append(r.calls,
                   Call("store", "upsert", collection_name, <<point>>, resp))
    IN  Finished(r, calls, SaveMemoryStore(resp, point_id, collection_name, jre))

Upsert(h) ==
    /\ req[h].pc = "upsert"
    /\ \E point_id \in Uuid4(generated), resp \in UpsertResponses :
        LET r == UpsertStep(req[h], point_id, resp, jsonIsRequestException)
            answered == r.result.status = 200
        IN  /\ req' = [req EXCEPT ![h] = r]
            /\ generated' = generated \cup {point_id}
            /\ savedPoints' = IF answered
                              THEN savedPoints \cup
                                     {[id |-> point_id,
                                       collection |-> r.calls[Len(r.calls)].collection,
                                       text |-> r.memory_input.text]}
                              ELSE savedPoints
            /\ nSaved' = IF answered THEN nSaved + 1 ELSE nSaved
    /\ UNCHANGED <<config, jsonIsRequestException, served>>

\* search_memory after the embedding: the POST, the response.
SearchStep(r, resp, jre) ==
    LET collection_name == r.request.body.collection
        calls == Append(r.calls,
                   Call("store", "search", collection_name,
                        SearchPayload(r.embedding, r.request.body), resp))
    IN  Finished(r, calls, SearchMemoryStore(resp, jre))

Search(h) ==
    /\ req[h].pc = "search"
    /\ \E resp \in SearchResponses :
        req' = [req EXCEPT ![h] = SearchStep(req[h], resp, jsonIsRequestException)]
    /\ UNCHANGED <<config, jsonIsRequestException, generated, savedPoints, nSaved, served>>

\* The response has been sent; the handler is free again.
Respond(h) ==
    /\ req[h].pc = "done"
    /\ req' = [req EXCEPT ![h] = Idle]
    /\ UNCHANGED <<config, jsonIsRequestException, generated, savedPoints, nSaved, served>>

Step(h, R, cap) ==
    \/ Receive(h, R, cap)
    \/ Auth(h)
    \/ Vision(h)
    \/ Embed(h)
    \/ Upsert(h)
    \/ Search(h)
    \/ Respond(h)

\* Requests served one at a time.
Next == Step("h1", Requests, MaxRequests)

Spec == Init /\ [][Next]_vars

\* Requests served by all handlers at the same time, their steps interleaved.
ConcRequests ==
    {r \in Requests :
        /\ r.key # Missing
        /\ r.key = "guess" => r.endpoint = "save-memory"
        /\ r.endpoint = "save-memory" => r.body.text = "t1"
        /\ r.endpoint = "search-memory" =>
              r.body.query = "t1" /\ r.body.limit = 5 /\ r.body.collection = "projects"
        /\ r.endpoint = "upload-image" => r.body.collection = "episodic_memory"}

NextConc == \E h \in Handlers : Step(h, ConcRequests, MaxConcRequests)

SpecConc == Init /\ [][NextConc]_vars

\* ------------------------------------------------------- reading the state
\* The request carries the configured shared secret in X-API-Key.
Authorized(r) ==
    r.request.key # Missing /\ r.request.key = config.SERVICE_API_KEY

Active(r) == r.pc # "idle"

Done(r) == r.pc = "done"

CallsTo(r, svc) == {i \in 1..Len(r.calls) : r.calls[i].svc = svc}

\* A downstream call failed: a transport error or a status that is not 2xx.
Failed(resp) == ~IsSuccessStatus(resp)

\* The embedding provider answered 2xx with an embedding.
EmbedSucceeded(resp) ==
    /\ IsSuccessStatus(resp)
    /\ resp.body.fmt # "text"
    /\ "embedding" \in DOMAIN resp.body.val

\* The vision provider answered 2xx with a description.
VisionSucceeded(resp) ==
    /\ IsSuccessStatus(resp)
    /\ resp.body.fmt # "text"
    /\ "candidates" \in DOMAIN resp.body.val

\* The error detail of the response, <<>> when it has none.
Detail(result) ==
    IF result.body.fmt # "text" /\ "detail" \in DOMAIN result.body.val
    THEN result.body.val.detail
    ELSE <<>>

\* The response is the {status, id, collection} document of a save.
IsSaveSuccess(result, id, collection) ==
    /\ result.status = 200
    /\ result.body.fmt # "text"
    /\ result.body.val = [status |-> "success", id |-> id, collection |-> collection]

\* ------------------------------------------------------------------- claims
\* C1: on each of the three endpoints, a request whose X-API-Key header is
\* missing or differs from the configured secret ends in a 403, and no call to
\* the embedding provider, the vision provider or the vector store is made
\* for it at any point.
C1_Unauthorized403NoCalls ==
    \A h \in Handlers :
        LET r == req[h] IN
        (Active(r) /\ ~Authorized(r)) =>
            /\ r.calls = <<>>
            /\ r.pc \in {"auth", "done"}
            /\ Done(r) => r.result.status = 403

C1_Witness ==
    \E h \in Handlers :
        LET r == req[h] IN
        /\ Done(r)
        /\ r.request.endpoint = "upload-image"
        /\ r.request.key = "guess"
        /\ config.SERVICE_API_KEY = "s3cret"
        /\ r.result.status = 403

\* C2: an authorized save whose embedding call and upsert both succeed makes
\* exactly two downstream calls, the embedding call first and the upsert
\* second, and answers {status: success, id, collection} with the identifier
\* generated for this request and the collection named in the request.
C2_SaveSuccess ==
    \A h \in Handlers :
        LET r == req[h] IN
        (/\ Done(r)
         /\ r.request.endpoint = "save-memory"
         /\ Authorized(r)
         /\ \A i \in 1..Len(r.calls) : IsSuccessStatus(r.calls[i].resp)
         /\ \A i \in CallsTo(r, "embedding") : EmbedSucceeded(r.calls[i].resp)) =>
            /\ Len(r.calls) = 2
            /\ r.calls[1].svc = "embedding"
            /\ r.calls[2].svc = "store" /\ r.calls[2].op = "upsert"
            /\ Len(r.calls[2].payload) = 1
            /\ r.calls[2].payload[1].id \in generated
            /\ IsSaveSuccess(r.result, r.calls[2].payload[1].id,
                             r.request.body.metadata.collection)

C2_Witness ==
    \E h \in Handlers :
        LET r == req[h] IN
        /\ Done(r)
        /\ r.request.endpoint = "save-memory"
        /\ r.request.body.metadata.collection = "projects"
        /\ Len(r.calls) = 2
        /\ EmbedSucceeded(r.calls[1].resp)
        /\ IsSuccessStatus(r.calls[2].resp)
        /\ r.result.status = 200

C4_UpsertFailure ==
    \A h \in Handlers :
        LET r == req[h] IN
        (/\ Done(r)
         /\ r.request.endpoint = "save-memory"
         /\ Authorized(r)
         /\ \A i \in CallsTo(r, "embedding") : EmbedSucceeded(r.calls[i].resp)
         /\ \E i \in CallsTo(r, "store") : Failed(r.calls[i].resp)) =>
            /\ r.result.status = 500
            /\ Cardinality(CallsTo(r, "embedding")) = 1
            /\ Cardinality(CallsTo(r, "store")) = 1

\* C5: an authorized upload-image whose vision call succeeds proceeds to save:
\* the record handed to save has the description as text, "image_upload/" +
\* source as metadata source, ["image_upload", source] as tags and the
\* requested collection, and when the embedding and the upsert then succeed
\* the response is the {status, id, collection} document of a save.
C5_UploadDelegatesToSave ==
    \A h \in Handlers :
        LET r == req[h]
            b == r.request.body
        IN
        (/\ r.request.endpoint = "upload-image"
         /\ Authorized(r)
         /\ Len(r.calls) >= 1
         /\ VisionSucceeded(r.calls[1].resp)) =>
            /\ r.memory_input.text = r.calls[1].resp.body.val.candidates[1].content.parts[1].text
            /\ r.memory_input.metadata.source = <<"image_upload/", b.source>>
            /\ r.memory_input.metadata.tags = <<"image_upload", b.source>>
            /\ r.memory_input.metadata.collection = b.collection
            /\ (/\ Done(r)
                /\ \A i \in 1..Len(r.calls) : IsSuccessStatus(r.calls[i].resp)
                /\ \A i \in CallsTo(r, "embedding") : EmbedSucceeded(r.calls[i].resp)) =>
                   /\ Len(r.calls) = 3
                   /\ r.calls[3].op = "upsert"
                   /\ IsSaveSuccess(r.result, r.calls[3].payload[1].id, b.collection)

\* C6 as stated: an authorized search whose embedding call and store search
\* both succeed answers with the content of the store's response body,
\* whatever that body is, and the search was issued against the collection and
\* the limit of the request.
C6_SearchPassthroughAnyBody ==
    \A h \in Handlers :
        LET r == req[h] IN
        (/\ Done(r)
         /\ r.request.endpoint = "search-memory"
         /\ Authorized(r)
         /\ Len(r.calls) = 2
         /\ EmbedSucceeded(r.calls[1].resp)
         /\ IsSuccessStatus(r.calls[2].resp)) =>
            /\ r.result.status = 200
            /\ r.result.body.val = r.calls[2].resp.body.val
            /\ r.calls[2].collection = r.request.body.collection
            /\ r.calls[2].payload.limit = r.request.body.limit

\* C6 amended: an authorized search whose embedding call succeeds, and whose
\* store search answers 2xx with a body that is JSON, answers 200 with the
\* JSON value of that body, unchanged; every store search is issued against
\* the collection and the limit of the request, with the request's embedding.
C6_SearchPassthroughJson ==
    \A h \in Handlers :
        LET r == req[h] IN
        (/\ Done(r)
         /\ r.request.endpoint = "search-memory"
         /\ Authorized(r)
         /\ \A i \in CallsTo(r, "embedding") : EmbedSucceeded(r.calls[i].resp)) =>
            /\ Len(r.calls) = 2
            /\ r.calls[2].svc = "store" /\ r.calls[2].op = "search"
            /\ r.calls[2].collection = r.request.body.collection
            /\ r.calls[2].payload.limit = r.request.body.limit
            /\ r.calls[2].payload.vector = r.calls[1].resp.body.val.embedding.values
            /\ (IsSuccessStatus(r.calls[2].resp) /\ r.calls[2].resp.body.fmt # "text") =>
                  /\ r.result.status = 200
                  /\ r.result.body.fmt # "text"
                  /\ r.result.body.val = r.calls[2].resp.body.val

C6_Witness ==
    \E h \in Handlers :
        LET r == req[h] IN
        /\ Done(r)
        /\ r.request.endpoint = "search-memory"
        /\ r.request.body.limit = 5
        /\ Len(r.calls) = 2
        /\ r.calls[2].resp.status = 200
        /\ r.calls[2].resp.body = Body("spaced", [result |-> <<"p1">>])
        /\ r.result.status = 200

\* C7: an authorized upload-image whose vision call fails (transport error or
\* a status that is not 2xx) ends in a 500 whose detail names the vision call,
\* and neither the embedding provider nor the store is called.
C7_VisionFailure ==
    \A h \in Handlers :
        LET r == req[h] IN
        (/\ Done(r)
         /\ r.request.endpoint = "upload-image"
         /\ Authorized(r)
         /\ Len(r.calls) >= 1
         /\ Failed(r.calls[1].resp)) =>
            /\ r.result.status = 500
            /\ Detail(r.result) # <<>>
            /\ Detail(r.result)[1] = "Error calling Gemini Vision API: "
            /\ CallsTo(r, "embedding") = {}
            /\ CallsTo(r, "store") = {}

\* C8: every downstream failure on any endpoint (transport error or any status
\* that is not 2xx, from the embedding, the vision or the store call) is
\* reported as a 500, whatever the upstream status was, and no authorized
\* request that hit a downstream failure ends with another status.  (The
\* claim adds that the detail of the 500 carries the upstream error text.)
C8_FailuresCollapseTo500 ==
    \A h \in Handlers :
        LET r == req[h] IN
        (/\ Done(r)
         /\ Authorized(r)
         /\ \E i \in 1..Len(r.calls) : Failed(r.calls[i].resp)) =>
            r.result.status = 500

\* The state of a handler that has just been handed request q.
Arrived(q) == [Idle EXCEPT !.pc = "auth", !.request = q]

\* The identifier a logged upsert carried.
UpsertId(call) ==
    IF call.svc = "store" /\ call.op = "upsert" THEN call.payload[1].id ELSE 0

\* One step of a request on its own: from its state and the answer it got.
OwnStep(s, call) ==
    CASE s.pc = "vision" -> VisionStep(s, call.resp, jsonIsRequestException)
      [] s.pc = "embed"  -> EmbedStep(s, call.resp, jsonIsRequestException)
      [] s.pc = "upsert" -> UpsertStep(s, UpsertId(call), call.resp, jsonIsRequestException)
      [] s.pc = "search" -> SearchStep(s, call.resp, jsonIsRequestException)
      [] OTHER -> s

RECURSIVE ReplayFrom(_, _, _)
ReplayFrom(s, calls, i) ==
    IF i > Len(calls) THEN s
    ELSE ReplayFrom(OwnStep(s, calls[i]), calls, i + 1)

\* The state of a request is what its own input, the static configuration and
\* the answers to its own downstream calls make it.
Determined(r) ==
    \/ r.pc = "idle"
    \/ r.pc = "auth" /\ r = Arrived(r.request)
    \/ r.pc \notin {"idle", "auth"}
         /\ r = ReplayFrom(AuthStep(Arrived(r.request), config), r.calls, 1)

\* C9: under any interleaving of concurrently served requests, the static
\* configuration never changes, a step of one request leaves every other
\* request as it was, and each request's outcome and downstream calls are
\* determined by its own input and the answers to its own downstream calls.
C9_RequestsIndependent ==
    [][/\ config' = config
       /\ jsonIsRequestException' = jsonIsRequestException
       /\ Cardinality({h \in Handlers : req'[h] # req[h]}) <= 1
       /\ \A h \in Handlers : Determined(req'[h])]_vars

C9_Witness ==
    /\ req["h1"].pc = "upsert"
    /\ req["h2"].pc = "search"
    /\ req["h1"].embedding # req["h2"].embedding
    /\ req["h1"].request.body.metadata.collection # req["h2"].request.body.collection

\* C10: every save answered with success has issued exactly one upsert of
\* exactly one point, whose id is the id returned, whose vector is the
\* embedding obtained for the request's text and whose collection is the
\* collection returned; the ids of different saves are pairwise distinct, so
\* every successful save adds a point, also when the record is the same.
C10_OnePointPerSave ==
    /\ \A h \in Handlers :
        LET r == req[h] IN
        (/\ Done(r)
         /\ r.request.endpoint = "save-memory"
         /\ r.result.status = 200) =>
            /\ Len(r.calls) = 2
            /\ r.calls[1].svc = "embedding"
            /\ r.calls[1].payload = r.request.body.text
            /\ EmbedSucceeded(r.calls[1].resp)
            /\ r.calls[2].svc = "store" /\ r.calls[2].op = "upsert"
            /\ Len(r.calls[2].payload) = 1
            /\ r.calls[2].payload[1].id = r.result.body.val.id
            /\ r.calls[2].payload[1].vector = r.calls[1].resp.body.val.embedding.values
            /\ r.calls[2].collection = r.result.body.val.collection
            /\ [id |-> r.result.body.val.id,
                collection |-> r.result.body.val.collection,
                text |-> r.request.body.text] \in savedPoints
    /\ Cardinality(savedPoints) = nSaved
    /\ \A p, q \in savedPoints : p.id = q.id => p = q

C10_Witness ==
    /\ nSaved >= 2
    /\ \E p, q \in savedPoints :
        p.id # q.id /\ p.collection = q.collection /\ p.text = q.text
    /\ \E h \in Handlers : Done(req[h]) /\ req[h].result.status = 200

====
